---- MODULE Spec2Model ----
(***************************************************************************)
(* Sequence alignment by dynamic programming (sequence_alignment.py):      *)
(* sequence_alignment builds the (m+1) x (n+1) cost table bottom-up and    *)
(* _reconstruct_optimal_alignment walks it backward to produce [sx, sy].   *)
(* Strings are sequences of one-character strings; pen_map is a nested     *)
(* partial function (a dict of dicts), so that a missing key is a KeyError.*)
(***************************************************************************)
EXTENDS Integers, Sequences, FiniteSets

VARIABLES x, y, gap_pen, pen_map, subproblems, i, j, sx, sy, pc, outcome, ret

vars == <<x, y, gap_pen, pen_map, subproblems, i, j, sx, sy, pc, outcome, ret>>

\* ------------------------------------------------------------------ bounds
MaxLen == 2
MaxPen == 2
MaxGap == 1

Alphabet == {"A", "B"}
Gap == " "

Strings == UNION {[1..k -> Alphabet] : k \in 0..MaxLen}
GapPens == -1..MaxGap
PenVals == 0..MaxPen

\* Total penalty maps over the alphabet, and the dicts that lack keys (outer
\* or inner) with every present entry 0, the empty dict among them.
TotalPenMaps == [Alphabet -> [Alphabet -> PenVals]]
ZeroRows == UNION {[E -> {0}] : E \in SUBSET Alphabet}
PartialPenMaps == UNION {[D -> ZeroRows] : D \in SUBSET Alphabet}
PenMaps == TotalPenMaps \cup PartialPenMaps

\* ----------------------------------------------------------------- helpers
Min3(a, b, c) == IF a <= b /\ a <= c THEN a ELSE IF b <= c THEN b ELSE c

Gaps(k) == [p \in 1..k |-> Gap]

\* pen_map[a][b] raises KeyError unless both keys are present.
HasPen(P, a, b) == a \in DOMAIN P /\ b \in DOMAIN P[a]

\* InputRejected without the test of y.
InputRejectedNoY(px, py, g, P) ==
    \/ px = <<>>
    \/ g < 0
    \/ DOMAIN P = {}

\* The three early returns of sequence_alignment.
InputRejected(px, py, g, P) ==
    \/ px = <<>> \/ py = <<>>
    \/ g < 0
    \/ DOMAIN P = {}

\* The allocated table with its boundary row and column seeded.
SeedTable(m, n, g) ==
    [a \in 0..m |-> [b \in 0..n |->
        IF b = 0 THEN a * g ELSE IF a = 0 THEN b * g ELSE 0]]

\* CellValue without the candidate of the left neighbour.
CellValueNoLeft(tab, a, b, px, py, g, P) ==
    LET result1 == tab[a - 1][b - 1] + P[px[a]][py[b]]
        result2 == tab[a - 1][b] + g
    IN  Min3(result1, result2, result2)

\* CellValue with a gap in X costing one more than a gap in Y.
CellValueSkewed(tab, a, b, px, py, g, P) ==
    LET result1 == tab[a - 1][b - 1] + P[px[a]][py[b]]
        result2 == tab[a - 1][b] + g
        result3 == tab[a][b - 1] + g + 1
    IN  Min3(result1, result2, result3)

\* The recurrence of one cell, 1 <= a <= m, 1 <= b <= n.
CellValue(tab, a, b, px, py, g, P) ==
    LET result1 == tab[a - 1][b - 1] + P[px[a]][py[b]]
        result2 == tab[a - 1][b] + g
        result3 == tab[a][b - 1] + g
    IN  Min3(result1, result2, result3)

\* Branch with the up-gap candidate compared first.
BranchUpFirst(dp, a, b, px, py, g, P) ==
    LET result1 == dp[a - 1][b - 1] + P[px[a]][py[b]]
        result2 == dp[a - 1][b] + g
        result  == dp[a][b]
    IN  IF result = result2 THEN "up"
        ELSE IF result = result1 THEN "diag"
        ELSE "left"

\* The branch of one backtracking iteration at cell (a, b): the if / elif /
\* else chain of the loop body.
Branch(dp, a, b, px, py, g, P) ==
    LET result1 == dp[a - 1][b - 1] + P[px[a]][py[b]]
        result2 == dp[a - 1][b] + g
        result  == dp[a][b]
    IN  IF result = result1 THEN "diag"
        ELSE IF result = result2 THEN "up"
        ELSE "left"

\* One iteration of the while loop as a function of the loop's locals.  The
\* diagonal branch ends in `y -= 1` on the string y: sx, sy and i are already
\* updated when the TypeError is raised, j is not touched.
StepBack(dp, a, b, s, t, px, py, g, P) ==
    LET br == Branch(dp, a, b, px, py, g, P) IN
    IF br = "diag"
        THEN [i |-> a - 1, j |-> b, sx |-> <<px[a]>> \o s, sy |-> <<py[b]>> \o t,
              raised |-> TRUE]
    ELSE IF br = "up"
        THEN [i |-> a - 1, j |-> b, sx |-> <<px[a]>> \o s, sy |-> <<Gap>> \o t,
              raised |-> FALSE]
    ELSE [i |-> a, j |-> b - 1, sx |-> <<Gap>> \o s, sy |-> <<py[b]>> \o t,
          raised |-> FALSE]

\* The padding after the loop and the returned list.
Padded(a, b, s, t) ==
    IF a # 0 THEN <<s, Gaps(a) \o t>>
    ELSE IF b # 0 THEN <<Gaps(b) \o s, t>>
    ELSE <<s, t>>

\* The table the nested loops leave for inputs that pass the three tests and have
\* every penalty they look up: cells are filled in row-major order, cell
\* number k being (k \div n + 1, k % n + 1).
RECURSIVE FillCells(_, _, _, _, _, _)
FillCells(tab, k, px, py, g, P) ==
    IF k = Len(px) * Len(py) THEN tab
    ELSE LET a == (k \div Len(py)) + 1
             b == (k % Len(py)) + 1
         IN  FillCells([tab EXCEPT ![a][b] = CellValue(tab, a, b, px, py, g, P)],
                       k + 1, px, py, g, P)

BuildTable(px, py, g, P) ==
    FillCells(SeedTable(Len(px), Len(py), g), 0, px, py, g, P)

\* The while loop and the padding of _reconstruct_optimal_alignment, run to
\* its end: what the caller gets.
RECURSIVE Walk(_, _, _, _, _, _, _, _, _)
Walk(dp, a, b, s, t, px, py, g, P) ==
    IF a >= 1 /\ b >= 1
        THEN LET st == StepBack(dp, a, b, s, t, px, py, g, P) IN
             IF st.raised THEN [outcome |-> "TypeError", ret |-> <<>>]
             ELSE Walk(dp, st.i, st.j, st.sx, st.sy, px, py, g, P)
    ELSE [outcome |-> "pair", ret |-> Padded(a, b, s, t)]

\* sequence_alignment(x, y, gap_pen, pen_map) as a function of its arguments.
sequence_alignment(px, py, g, P) ==
    IF InputRejected(px, py, g, P) THEN [outcome |-> "empty", ret |-> <<>>]
    ELSE IF \E a \in 1..Len(px), b \in 1..Len(py) : ~HasPen(P, px[a], py[b])
        THEN [outcome |-> "KeyError", ret |-> <<>>]
    ELSE Walk(BuildTable(px, py, g, P), Len(px), Len(py), <<>>, <<>>, px, py, g, P)


\* -------------------------------------------------------------- the program
Init ==
    /\ x \in Strings
    /\ y \in Strings
    /\ gap_pen \in GapPens
    /\ pen_map \in PenMaps
    /\ subproblems = <<>>
    /\ i = 0
    /\ j = 0
    /\ sx = <<>>
    /\ sy = <<>>
    /\ pc = "start"
    /\ outcome = "none"
    /\ ret = <<>>

\* An early `return []`.
Reject ==
    /\ pc = "start"
    /\ InputRejected(x, y, gap_pen, pen_map)
    /\ pc' = "done"
    /\ outcome' = "empty"
    /\ ret' = <<>>
    /\ UNCHANGED <<x, y, gap_pen, pen_map, subproblems, i, j, sx, sy>>

\* Allocation and seeding of the table; the nested loops start at (1, 1)
\* (m, n >= 1 here).
Seed ==
    /\ pc = "start"
    /\ ~InputRejected(x, y, gap_pen, pen_map)
    /\ subproblems' = SeedTable(Len(x), Len(y), gap_pen)
    /\ i' = 1
    /\ j' = 1
    /\ pc' = "fill"
    /\ UNCHANGED <<x, y, gap_pen, pen_map, sx, sy, outcome, ret>>

\* One iteration of the inner loop; after the last cell the call of
\* _reconstruct_optimal_alignment sets sx, sy = '', '' and i, j = m, n.
FillCell ==
    /\ pc = "fill"
    /\ HasPen(pen_map, x[i], y[j])
    /\ subproblems' = [subproblems EXCEPT
           ![i][j] = CellValue(subproblems, i, j, x, y, gap_pen, pen_map)]
    /\ IF j < Len(y)
           THEN /\ j' = j + 1
                /\ UNCHANGED <<i, pc, sx, sy>>
       ELSE IF i < Len(x)
           THEN /\ i' = i + 1
                /\ j' = 1
                /\ UNCHANGED <<pc, sx, sy>>
       ELSE /\ i' = Len(x)
            /\ j' = Len(y)
            /\ sx' = <<>>
            /\ sy' = <<>>
            /\ pc' = "backtrack"
    /\ UNCHANGED <<x, y, gap_pen, pen_map, outcome, ret>>

\* FillKeyError with the exception swallowed and [sx, sy] returned.
FillKeyErrorSwallowed ==
    /\ pc = "fill"
    /\ ~HasPen(pen_map, x[i], y[j])
    /\ pc' = "done"
    /\ outcome' = "pair"
    /\ ret' = <<sx, sy>>
    /\ UNCHANGED <<x, y, gap_pen, pen_map, subproblems, i, j, sx, sy>>

\* The lookup pen_map[x_curr][y_curr] raises KeyError, which leaves
\* sequence_alignment with nothing returned.
FillKeyError ==
    /\ pc = "fill"
    /\ ~HasPen(pen_map, x[i], y[j])
    /\ pc' = "done"
    /\ outcome' = "KeyError"
    /\ UNCHANGED <<x, y, gap_pen, pen_map, subproblems, i, j, sx, sy, ret>>

\* One iteration of the while loop (i >= 1 and j >= 1 whenever pc is
\* "backtrack"; every pen_map[x_curr][y_curr] was already looked up by the
\* nested loops); the loop is left for the padding once i or j is 0, and by
\* the TypeError of the diagonal branch.
Iterate ==
    /\ LET st == StepBack(subproblems, i, j, sx, sy, x, y, gap_pen, pen_map) IN
        /\ i' = st.i
        /\ j' = st.j
        /\ sx' = st.sx
        /\ sy' = st.sy
        /\ IF st.raised
               THEN pc' = "done" /\ outcome' = "TypeError"
           ELSE IF st.i >= 1 /\ st.j >= 1
               THEN pc' = "backtrack" /\ UNCHANGED outcome
           ELSE pc' = "pad" /\ UNCHANGED outcome
    /\ UNCHANGED <<x, y, gap_pen, pen_map, subproblems, ret>>

BacktrackDiag ==
    /\ pc = "backtrack"
    /\ Branch(subproblems, i, j, x, y, gap_pen, pen_map) = "diag"
    /\ Iterate

BacktrackUp ==
    /\ pc = "backtrack"
    /\ Branch(subproblems, i, j, x, y, gap_pen, pen_map) = "up"
    /\ Iterate

BacktrackLeft ==
    /\ pc = "backtrack"
    /\ Branch(subproblems, i, j, x, y, gap_pen, pen_map) = "left"
    /\ Iterate

\* The `if i: ... elif j: ...` after the loop and `return [sx, sy]`.
Pad ==
    /\ pc = "pad"
    /\ LET r == Padded(i, j, sx, sy) IN
        /\ sx' = r[1]
        /\ sy' = r[2]
        /\ ret' = r
    /\ pc' = "done"
    /\ outcome' = "pair"
    /\ UNCHANGED <<x, y, gap_pen, pen_map, subproblems, i, j>>

Next ==
    \/ Reject
    \/ Seed
    \/ FillCell
    \/ FillKeyError
    \/ BacktrackDiag
    \/ BacktrackUp
    \/ BacktrackLeft
    \/ Pad

Spec == Init /\ [][Next]_vars
\* ------------------------------------------------------------- definitions
\* used by the properties

\* Inputs that pass the three tests and have a penalty for every pair of
\* symbols of x and y.
ValidInput ==
    /\ x # <<>> /\ y # <<>>
    /\ gap_pen >= 0
    /\ DOMAIN pen_map # {}
    /\ \A a \in 1..Len(x), b \in 1..Len(y) :
           x[a] \in DOMAIN pen_map /\ y[b] \in DOMAIN pen_map[x[a]]

\* The state in which the nested loops have just finished and the backward
\* walk is about to start at (m, n).
TableComplete == pc = "backtrack" /\ i = Len(x) /\ j = Len(y)

Front(s) == SubSeq(s, 1, Len(s) - 1)
Last(s) == s[Len(s)]

\* Every alignment of px and py (no column of two gaps), enumerated by its
\* last column.
RECURSIVE AllAlignments(_, _)
AllAlignments(px, py) ==
    IF px = <<>> /\ py = <<>> THEN {<< <<>>, <<>> >>}
    ELSE
        (IF px # <<>> /\ py # <<>>
            THEN {<<Append(al[1], Last(px)), Append(al[2], Last(py))>> :
                      al \in AllAlignments(Front(px), Front(py))}
            ELSE {})
        \cup
        (IF px # <<>>
            THEN {<<Append(al[1], Last(px)), Append(al[2], Gap)>> :
                      al \in AllAlignments(Front(px), py)}
            ELSE {})
        \cup
        (IF py # <<>>
            THEN {<<Append(al[1], Gap), Append(al[2], Last(py))>> :
                      al \in AllAlignments(px, Front(py))}
            ELSE {})

ColumnPenalty(a, b, g, P) == IF a = Gap \/ b = Gap THEN g ELSE P[a][b]

\* The sum of the per-position penalties of the first k columns.
RECURSIVE ColumnSum(_, _, _, _, _)
ColumnSum(ax, ay, k, g, P) ==
    IF k = 0 THEN 0
    ELSE ColumnSum(ax, ay, k - 1, g, P) + ColumnPenalty(ax[k], ay[k], g, P)

AlignCost(ax, ay, g, P) == ColumnSum(ax, ay, Len(ax), g, P)

MinOf(S) == CHOOSE v \in S : \A w \in S : v <= w

IsSymbol(c) == c # Gap
Strip(s) == SelectSeq(s, IsSymbol)

IsAlignment(ax, ay, px, py) ==
    /\ Len(ax) = Len(ay)
    /\ Strip(ax) = px
    /\ Strip(ay) = py

\* P' with P'(a, b) = P(b, a).
SwapPen(P) ==
    LET keys == {a \in Alphabet : \E b \in DOMAIN P : a \in DOMAIN P[b]} IN
    [a \in keys |-> [b \in {c \in DOMAIN P : a \in DOMAIN P[c]} |-> P[b][a]]]

\* ------------------------------------------------------------------ claims

\* C1: when the nested loops have finished, table[m][n] is the minimum, over
\* all alignments of X and Y, of the sum of the per-position penalties.
Optimal_C1 ==
    TableComplete =>
        subproblems[Len(x)][Len(y)] =
            MinOf({AlignCost(al[1], al[2], gap_pen, pen_map) :
                       al \in AllAlignments(x, y)})

\* The table of two strings of different lengths is complete and its optimum
\* is positive and below the cost of the all-gap alignment.
Optimal_C1_Witness ==
    /\ TableComplete
    /\ Len(x) # Len(y)
    /\ subproblems[Len(x)][Len(y)] > 0
    /\ subproblems[Len(x)][Len(y)] < (Len(x) + Len(y)) * gap_pen

\* C2: the returned pair (Sx, Sy) is an alignment of X and Y: equal lengths,
\* and stripping the gaps gives back X and Y.
ValidAlignment_C2 ==
    (pc = "done" /\ outcome = "pair") => IsAlignment(ret[1], ret[2], x, y)

\* C3: the per-position penalties of the returned pair sum to table[m][n].
PenaltySum_C3 ==
    (pc = "done" /\ outcome = "pair") =>
        /\ Len(ret[1]) = Len(ret[2])
        /\ AlignCost(ret[1], ret[2], gap_pen, pen_map)
               = subproblems[Len(x)][Len(y)]

\* C4: an empty X or Y, a negative gap penalty or an empty penalty map ends
\* in the empty result, with no table allocated, no cell computed and the
\* backward walk never entered.
Rejects_C4 ==
    (x = <<>> \/ y = <<>> \/ gap_pen < 0 \/ DOMAIN pen_map = {}) =>
        /\ pc \in {"start", "done"}
        /\ pc = "done" => (outcome = "empty" /\ ret = <<>>)
        /\ pc = "start" => outcome = "none"
        /\ subproblems = <<>>
        /\ i = 0 /\ j = 0
        /\ sx = <<>> /\ sy = <<>>

\* align("", "A", g, P) with g >= 0 and P total has returned the empty result.
Rejects_C4_Witness ==
    /\ pc = "done"
    /\ outcome = "empty"
    /\ x = <<>>
    /\ y = <<"A">>
    /\ gap_pen >= 0
    /\ pen_map \in TotalPenMaps

\* C5: a missing penalty for the pair of the cell being computed ends the
\* operation there with an error: the cell is not written, nothing is
\* returned, the backward walk is not started, and nothing happens after it.
KeyError_C5 ==
    [][/\ (pc = "fill" /\ ~(x[i] \in DOMAIN pen_map /\ y[j] \in DOMAIN pen_map[x[i]]))
           => /\ pc' = "done"
              /\ outcome' = "KeyError"
              /\ ret' = <<>>
              /\ subproblems' = subproblems
              /\ sx' = <<>> /\ sy' = <<>>
       /\ outcome' = "KeyError" => pc = "fill"
       /\ outcome = "KeyError" => FALSE]_vars

\* The KeyError was raised after at least one cell had been computed.
KeyError_C5_Witness ==
    /\ pc = "done"
    /\ outcome = "KeyError"
    /\ DOMAIN pen_map # {}
    /\ i + j > 2

\* C6 (as amended): align(X, Y, g, P) and align(Y, X, g, P') have the same
\* minimum penalty: table[m][n] of the first is table[n][m] of the second.
Symmetric_C6 ==
    TableComplete =>
        subproblems[Len(x)][Len(y)] =
            BuildTable(y, x, gap_pen, SwapPen(pen_map))[Len(y)][Len(x)]

\* The table is complete for X # Y of different lengths under a penalty map
\* that differs from its transpose, with a positive optimum.
Symmetric_C6_Witness ==
    /\ TableComplete
    /\ Len(x) # Len(y)
    /\ pen_map # SwapPen(pen_map)
    /\ subproblems[Len(x)][Len(y)] > 0

\* C6 (as stated): the penalties are equal and, when the first call returns
\* (Sx, Sy), the second returns (Sy, Sx).
Mirror_C6 ==
    (pc = "done" /\ outcome = "pair") =>
        LET second == sequence_alignment(y, x, gap_pen, SwapPen(pen_map)) IN
        /\ subproblems[Len(x)][Len(y)] =
               BuildTable(y, x, gap_pen, SwapPen(pen_map))[Len(y)][Len(x)]
        /\ second.outcome = "pair"
        /\ second.ret = <<ret[2], ret[1]>>

\* C7: for valid inputs the computation ends by returning a pair [Sx, Sy],
\* never with an error.
Completes_C7 ==
    (ValidInput /\ pc = "done") => (outcome = "pair" /\ ret = <<sx, sy>>)

\* C8: each iteration of the backward walk updates the indices as its branch
\* says (diagonal: i and j; up-gap: i only; left-gap: j only), prepends the
\* matching characters, leaves X, Y and the table alone and keeps (i, j) in
\* [0, m] x [0, n].
StepUpdates_C8 ==
    [][pc = "backtrack" =>
        LET d == subproblems[i - 1][j - 1] + pen_map[x[i]][y[j]]
            u == subproblems[i - 1][j] + gap_pen
            r == subproblems[i][j]
        IN  /\ x' = x /\ y' = y /\ subproblems' = subproblems
            /\ i' \in 0..Len(x) /\ j' \in 0..Len(y)
            /\ r = d =>
                   /\ sx' = <<x[i]>> \o sx /\ sy' = <<y[j]>> \o sy
                   /\ i' = i - 1 /\ j' = j - 1
            /\ (r # d /\ r = u) =>
                   /\ sx' = <<x[i]>> \o sx /\ sy' = <<Gap>> \o sy
                   /\ i' = i - 1 /\ j' = j
            /\ (r # d /\ r # u) =>
                   /\ sx' = <<Gap>> \o sx /\ sy' = <<y[j]>> \o sy
                   /\ i' = i /\ j' = j - 1]_vars

\* C9: leaving the loop with i > 0 the result is X[0..i-1] before Sx and i
\* gaps before Sy; leaving it with j > 0 the result is j gaps before Sx and
\* Y[0..j-1] before Sy.
Trailing_C9 ==
    [][pc = "pad" =>
        /\ (i > 0 /\ j = 0) =>
               ret' = <<SubSeq(x, 1, i) \o sx, Gaps(i) \o sy>>
        /\ (j > 0 /\ i = 0) =>
               ret' = <<Gaps(j) \o sx, SubSeq(y, 1, j) \o sy>>]_vars

\* C10: the branch of an iteration at (i, j) follows the order diagonal, then
\* up-gap, then left-gap: the diagonal branch whenever table[i][j] is the
\* diagonal candidate, the up-gap branch only when it is not and table[i][j]
\* is the up candidate, the left-gap branch only when it is neither, and then
\* table[i][j] is the left candidate.
TieBreak_C10 ==
    [][pc = "backtrack" =>
        LET d == subproblems[i - 1][j - 1] + pen_map[x[i]][y[j]]
            u == subproblems[i - 1][j] + gap_pen
            l == subproblems[i][j - 1] + gap_pen
            r == subproblems[i][j]
            tookDiag == sx' = <<x[i]>> \o sx /\ sy' = <<y[j]>> \o sy
            tookUp   == sx' = <<x[i]>> \o sx /\ sy' = <<Gap>> \o sy
            tookLeft == sx' = <<Gap>> \o sx /\ sy' = <<y[j]>> \o sy
        IN  /\ tookDiag \/ tookUp \/ tookLeft
            /\ r = d => tookDiag
            /\ tookUp => (r # d /\ r = u)
            /\ (r # d /\ r = u) => tookUp
            /\ tookLeft => (r # d /\ r # u /\ r = l)]_vars

\* The diagonal branch has been taken at a cell (i + 1, j) whose diagonal and
\* up candidates both equal the cell.
TieBreak_C10_Witness ==
    /\ outcome = "TypeError"
    /\ sx # <<>> /\ sy # <<>>
    /\ sy[1] # Gap
    /\ subproblems[i + 1][j] = subproblems[i][j - 1] + pen_map[x[i + 1]][y[j]]
    /\ subproblems[i + 1][j] = subproblems[i][j] + gap_pen

====
